---------------------------- MODULE Spec2Model ----------------------------
(***************************************************************************)
(* FBA profit calculator: the calculation library (calculatorUtils.ts) and *)
(* the calculator view (FBACalculator.tsx).                                *)
(*                                                                         *)
(* JavaScript numbers are modelled as binary floating-point values with a  *)
(* significand of Precision bits, rounded to nearest, ties to even, after  *)
(* every arithmetic operation, together with Infinity, -Infinity and NaN.  *)
(* The exponent range is not bounded (no overflow to Infinity and no       *)
(* underflow), and there is a single zero (the code modelled here never    *)
(* produces -0 where its sign could be observed).                          *)
(***************************************************************************)
EXTENDS Integers, Sequences, FiniteSets, TLC

VARIABLES
  search,     \* window.location.search of the page
  inputs,     \* FBACalculator: the inputs state
  results,    \* FBACalculator: the results state, Null before the first
  timer,      \* the pending live-calculation timeout: the inputs its
              \* callback closes over, Null when none is pending
  clipboard,  \* the text on the clipboard
  linkFrom,   \* the inputs the link on the clipboard was generated from
  loaded,     \* how the page was opened: "url" (typed) or "share" (a link)
  events,     \* the number of user events so far (input events, clicks,
              \* a link opened)
  call,       \* the last library call made directly: [fn, val]
  edited,     \* the fields an accepted input event has set in this view
  isCalculating,   \* FBACalculator: the isCalculating state
  calc,       \* the calculateProfit run in flight: where it waits (pc) and
              \* the inputs its closure holds
  email,      \* FBACalculator: the email state
  isSendingEmail,  \* FBACalculator: the isSendingEmail state
  send,       \* the sendResultsToEmail run in flight: where it waits (pc)
  toasts,     \* the notifications the latest step showed (toast calls)
  console,    \* the messages the latest step wrote with console.error
  sink,       \* the rows the latest step passed to the logging insert
  scenario1,  \* FBACalculator: the scenario1 state, Null before it is saved
  scenario2,  \* FBACalculator: the scenario2 state
  chart,      \* ProfitChart: its ranges and the loop of the series being
              \* derived
  intro       \* IntroScreen and the showIntro state of its parent

vars == <<search, inputs, results, timer, clipboard, linkFrom, loaded, events,
          call, edited, isCalculating, calc, email, isSendingEmail, send,
          toasts, console, sink, scenario1, scenario2, chart, intro>>

(***************************************************************************)
(* Bounds of the model.                                                    *)
(***************************************************************************)
\* bits of significand of a number (an IEEE double has 53)
Precision == 5
\* user events (input events of the seven fields, clicks, a link opened) in
\* one behaviour; typing into the email field is not counted
MaxEvents == 2
\* points of a chart series that are counted: MaxPoints stands for that
\* many and more
MaxPoints == 25
\* renders of FBACalculator after the first one while the intro is shown
MaxRenders == 2

----------------------------------------------------------------------------
(***************************************************************************)
(* Numbers.  A number is a record [n, d]: the rational n/d in lowest terms *)
(* when d > 0, Infinity = 1/0, -Infinity = -1/0, NaN = 0/0.                *)
(***************************************************************************)
RECURSIVE GCD(_, _)
GCD(a, b) == IF b = 0 THEN a ELSE GCD(b, a % b)

AbsInt(i) == IF i < 0 THEN -i ELSE i

SignInt(i) == IF i < 0 THEN -1 ELSE IF i > 0 THEN 1 ELSE 0

RECURSIVE Pow(_, _)
Pow(b, k) == IF k = 0 THEN 1 ELSE b * Pow(b, k - 1)

Pow2(k) == Pow(2, k)

Pow10(k) == Pow(10, k)

Reduce(n, d, g) == [n |-> n \div g, d |-> d \div g]

\* the rational n/d (d > 0) in lowest terms
Rat(n, d) == Reduce(n, d, GCD(AbsInt(n), d))

Int2Num(i) == [n |-> i, d |-> 1]

Zero == Int2Num(0)

PosInf == [n |-> 1, d |-> 0]

NegInf == [n |-> -1, d |-> 0]

NaN == [n |-> 0, d |-> 0]

IsNaN(x) == x.d = 0 /\ x.n = 0

IsInf(x) == x.d = 0 /\ x.n # 0

\* Number.isFinite
IsFinite(x) == x.d > 0

Sign(x) == SignInt(x.n)

\* a/d >= 2^k, for a >= 0, d > 0 and any integer k
GePow2(a, d, k) == IF k >= 0 THEN a >= d * Pow2(k) ELSE a * Pow2(-k) >= d

\* the exponent e with 2^(Precision-1+e) <= a/d < 2^(Precision+e), a > 0
RECURSIVE FindExp(_, _, _)
FindExp(a, d, e) ==
  IF GePow2(a, d, Precision + e) THEN FindExp(a, d, e + 1)
  ELSE IF ~GePow2(a, d, Precision - 1 + e) THEN FindExp(a, d, e - 1)
  ELSE e

\* q + r/den rounded to the nearest integer, ties to even
NearestEven(q, r, den) ==
  IF 2 * r > den THEN q + 1
  ELSE IF 2 * r < den THEN q
  ELSE IF q % 2 = 0 THEN q ELSE q + 1

\* num/den rounded to the nearest integer, ties to even
Nearest(num, den) == NearestEven(num \div den, num % den, den)

\* sgn * (a/d), rounded to a multiple of 2^e
RoundAt(sgn, a, d, e) ==
  IF e >= 0 THEN Rat(sgn * Nearest(a, d * Pow2(e)) * Pow2(e), 1)
  ELSE Rat(sgn * Nearest(a * Pow2(-e), d), Pow2(-e))

\* the rational n/d (d > 0) rounded to the nearest number of Precision bits,
\* ties to even
Round(n, d) ==
  IF n = 0 THEN Zero
  ELSE RoundAt(SignInt(n), AbsInt(n), d, FindExp(AbsInt(n), d, 0))

Neg(x) == [n |-> -x.n, d |-> x.d]

\* x + y
Add(x, y) ==
  IF IsNaN(x) \/ IsNaN(y) THEN NaN
  ELSE IF IsInf(x) /\ IsInf(y) THEN (IF x.n = y.n THEN x ELSE NaN)
  ELSE IF IsInf(x) THEN x
  ELSE IF IsInf(y) THEN y
  ELSE Round(x.n * y.d + y.n * x.d, x.d * y.d)

\* x - y
Sub(x, y) == Add(x, Neg(y))

\* x * y
Mul(x, y) ==
  IF IsNaN(x) \/ IsNaN(y) THEN NaN
  ELSE IF IsInf(x) \/ IsInf(y)
       THEN (IF Sign(x) * Sign(y) = 0 THEN NaN
             ELSE IF Sign(x) * Sign(y) > 0 THEN PosInf ELSE NegInf)
  ELSE Round(x.n * y.n, x.d * y.d)

\* x / y
Div(x, y) ==
  IF IsNaN(x) \/ IsNaN(y) THEN NaN
  ELSE IF IsInf(x) /\ IsInf(y) THEN NaN
  ELSE IF IsInf(x) THEN (IF Sign(x) * Sign(y) < 0 THEN NegInf ELSE PosInf)
  ELSE IF IsInf(y) THEN Zero
  ELSE IF y.n = 0
       THEN (IF x.n = 0 THEN NaN ELSE IF x.n > 0 THEN PosInf ELSE NegInf)
  ELSE Round(x.n * y.d * SignInt(y.n), x.d * AbsInt(y.n))

\* Math.abs
Abs(x) == [n |-> AbsInt(x.n), d |-> x.d]

\* Math.ceil
Ceil(x) ==
  IF ~IsFinite(x) THEN x
  ELSE IF x.n % x.d = 0 THEN Int2Num(x.n \div x.d)
  ELSE Int2Num((x.n \div x.d) + 1)

\* x < y
Lt(x, y) ==
  IF IsNaN(x) \/ IsNaN(y) THEN FALSE
  ELSE IF IsInf(x) \/ IsInf(y)
       THEN (IF IsInf(x) /\ IsInf(y) THEN x.n < y.n
             ELSE IF IsInf(x) THEN x.n < 0 ELSE y.n > 0)
  ELSE x.n * y.d < y.n * x.d

\* x > y
Gt(x, y) == Lt(y, x)

\* x <= y
Le(x, y) == ~IsNaN(x) /\ ~IsNaN(y) /\ ~Lt(y, x)

\* x >= y
Ge(x, y) == Le(y, x)

\* x !== y
StrictNe(x, y) == IsNaN(x) \/ IsNaN(y) \/ x # y

\* ToBoolean of a number: false for 0 and NaN
Truthy(x) == ~IsNaN(x) /\ x # Zero

----------------------------------------------------------------------------
(***************************************************************************)
(* Strings are sequences of characters (one-character strings); in a query *)
(* string a parameter name is a single element of the sequence.            *)
(***************************************************************************)
\* null, where a record is expected
Null == [null |-> TRUE]

\* null, where a string is expected
NullText == <<"(null)">>

DigitChars == <<"0", "1", "2", "3", "4", "5", "6", "7", "8", "9">>

IsDigit(c) == \E i \in 1..10 : DigitChars[i] = c

DigitVal(c) == (CHOOSE i \in 1..10 : DigitChars[i] = c) - 1

\* the decimal digits of the natural number i
RECURSIVE IntDigits(_)
IntDigits(i) ==
  IF i < 10 THEN <<DigitChars[i + 1]>>
  ELSE Append(IntDigits(i \div 10), DigitChars[(i % 10) + 1])

\* the digits after the decimal point of r/d, 0 < r < d, d a divisor of a
\* power of ten
RECURSIVE FracDigits(_, _)
FracDigits(r, d) ==
  IF r = 0 THEN <<>>
  ELSE <<DigitChars[((r * 10) \div d) + 1]>> \o FracDigits((r * 10) % d, d)

\* a/d >= 10^k, for a >= 0, d > 0 and any integer k
GePow10(a, d, k) == IF k >= 0 THEN a >= d * Pow10(k) ELSE a * Pow10(-k) >= d

\* the n with 10^(n-1) <= a/d < 10^n, a > 0
RECURSIVE DecExp(_, _, _)
DecExp(a, d, n) ==
  IF GePow10(a, d, n) THEN DecExp(a, d, n + 1)
  ELSE IF ~GePow10(a, d, n - 1) THEN DecExp(a, d, n - 1)
  ELSE n

\* |p - q| as a rational pair, p and q finite
Dist(p, q) == Abs(Rat(p.n * q.d - q.n * p.d, p.d * q.d))

\* floor(x / 10^s), x finite and positive
DecFloor(x, s) ==
  IF s >= 0 THEN x.n \div (x.d * Pow10(s)) ELSE (x.n * Pow10(-s)) \div x.d

\* m * 10^s
DecOf(m, s) == IF s >= 0 THEN Rat(m * Pow10(s), 1) ELSE Rat(m, Pow10(-s))

\* of the decimals lo < hi that read back as x, the closer to x; the even
\* one when they are as close
Closer(x, lo, hi, fl) ==
  IF Lt(Dist(hi, x), Dist(lo, x)) THEN hi
  ELSE IF Lt(Dist(lo, x), Dist(hi, x)) THEN lo
  ELSE IF fl % 2 = 0 THEN lo ELSE hi

\* Number::toString, step 5: the decimal of k significant digits (k as
\* small as possible) that reads back as x; of two, the closer to x.
\* x is finite and positive, 10^(n-1) <= x < 10^n.
RECURSIVE Shortest(_, _, _)
ShortestOf(x, n, k, fl, lo, hi) ==
  IF Round(lo.n, lo.d) = x /\ Round(hi.n, hi.d) = x THEN Closer(x, lo, hi, fl)
  ELSE IF Round(lo.n, lo.d) = x THEN lo
  ELSE IF Round(hi.n, hi.d) = x THEN hi
  ELSE Shortest(x, n, k + 1)

ShortestFrom(x, n, k, fl) ==
  ShortestOf(x, n, k, fl, DecOf(fl, n - k), DecOf(fl + 1, n - k))

Shortest(x, n, k) == ShortestFrom(x, n, k, DecFloor(x, n - k))

\* the decimal expansion of the positive rational v
DecimalText(v) ==
  IntDigits(v.n \div v.d)
  \o (IF v.n % v.d = 0 THEN <<>> ELSE <<".">> \o FracDigits(v.n % v.d, v.d))

\* Number.prototype.toString (radix 10).  Exponential notation (values of
\* 1e21 and more, or below 1e-6) does not occur for the values of the model.
NumberToString(x) ==
  IF IsNaN(x) THEN <<"N", "a", "N">>
  ELSE IF x = PosInf THEN <<"I", "n", "f", "i", "n", "i", "t", "y">>
  ELSE IF x = NegInf THEN <<"-", "I", "n", "f", "i", "n", "i", "t", "y">>
  ELSE IF x = Zero THEN <<"0">>
  ELSE (IF x.n < 0 THEN <<"-">> ELSE <<>>)
       \o DecimalText(Shortest(Abs(x), DecExp(AbsInt(x.n), x.d, 0), 1))

\* the longest prefix of s made of digits
RECURSIVE DigitRun(_)
DigitRun(s) ==
  IF s # <<>> /\ IsDigit(Head(s)) THEN <<Head(s)>> \o DigitRun(Tail(s))
  ELSE <<>>

\* the natural number a digit string denotes (0 for the empty string)
RECURSIVE DigitsVal(_)
DigitsVal(ds) ==
  IF ds = <<>> THEN 0
  ELSE DigitsVal(SubSeq(ds, 1, Len(ds) - 1)) * 10 + DigitVal(ds[Len(ds)])

Drop(s, k) == SubSeq(s, k + 1, Len(s))

StartsWith(s, p) == Len(s) >= Len(p) /\ SubSeq(s, 1, Len(p)) = p

RECURSIVE TrimStart(_)
TrimStart(s) == IF s # <<>> /\ Head(s) = " " THEN TrimStart(Tail(s)) ELSE s

\* mant * 10^sc, rounded to a number
Decimal(mant, sc) ==
  IF sc >= 0 THEN Round(mant * Pow10(sc), 1) ELSE Round(mant, Pow10(-sc))

\* the value of an exponent part [sign] digits; 0 when it has no digits
ExpVal(s) ==
  IF s # <<>> /\ Head(s) = "-" THEN -DigitsVal(DigitRun(Tail(s)))
  ELSE IF s # <<>> /\ Head(s) = "+" THEN DigitsVal(DigitRun(Tail(s)))
  ELSE DigitsVal(DigitRun(s))

\* digits ip, fraction digits fp, and the text that follows them
ParseExponent(ip, fp, rest) ==
  IF ip = <<>> /\ fp = <<>> THEN NaN
  ELSE IF rest # <<>> /\ Head(rest) \in {"e", "E"}
       THEN Decimal(DigitsVal(ip \o fp), ExpVal(Tail(rest)) - Len(fp))
  ELSE Decimal(DigitsVal(ip \o fp), -Len(fp))

ParseFraction(ip, rest) ==
  IF rest # <<>> /\ Head(rest) = "."
  THEN ParseExponent(ip, DigitRun(Tail(rest)),
                     Drop(rest, 1 + Len(DigitRun(Tail(rest)))))
  ELSE ParseExponent(ip, <<>>, rest)

ParseUnsigned(s) ==
  IF StartsWith(s, <<"I", "n", "f", "i", "n", "i", "t", "y">>) THEN PosInf
  ELSE ParseFraction(DigitRun(s), Drop(s, Len(DigitRun(s))))

ParseSigned(s) ==
  IF s # <<>> /\ Head(s) = "-" THEN Neg(ParseUnsigned(Tail(s)))
  ELSE IF s # <<>> /\ Head(s) = "+" THEN ParseUnsigned(Tail(s))
  ELSE ParseUnsigned(s)

\* parseFloat: the longest prefix of the trimmed string that is a decimal
\* literal ([sign] Infinity | [sign] digits [. digits] [e [sign] digits] |
\* [sign] . digits [e [sign] digits]), rounded to a number; NaN when there
\* is none.
ParseFloat(str) == ParseSigned(TrimStart(str))

----------------------------------------------------------------------------
(***************************************************************************)
(* URLSearchParams: a list of [key, value] pairs, and its text form        *)
(* key=value&key=value (application/x-www-form-urlencoded).                *)
(***************************************************************************)
\* form-urlencoded serialisation of a value; of the characters that are
\* escaped only the space and "+" occur in the model
RECURSIVE FormEncode(_)
FormEncode(s) ==
  IF s = <<>> THEN <<>>
  ELSE (IF Head(s) = " " THEN <<"+">>
        ELSE IF Head(s) = "+" THEN <<"%", "2", "B">>
        ELSE <<Head(s)>>) \o FormEncode(Tail(s))

RECURSIVE FormDecode(_)
FormDecode(s) ==
  IF s = <<>> THEN <<>>
  ELSE IF StartsWith(s, <<"%", "2", "B">>) THEN <<"+">> \o FormDecode(Drop(s, 3))
  ELSE (IF Head(s) = "+" THEN <<" ">> ELSE <<Head(s)>>) \o FormDecode(Tail(s))

\* URLSearchParams.prototype.set: the first pair named key takes the value
\* and the others named key are removed; appended when there is none
ParamsSet(params, key, value) ==
  LET RECURSIVE Put(_, _)
      Put(ps, done) ==
        IF ps = <<>> THEN (IF done THEN <<>> ELSE <<[key |-> key, value |-> value]>>)
        ELSE IF Head(ps).key = key
             THEN (IF done THEN <<>> ELSE <<[key |-> key, value |-> value]>>)
                  \o Put(Tail(ps), TRUE)
        ELSE <<Head(ps)>> \o Put(Tail(ps), done)
  IN  Put(params, FALSE)

\* URLSearchParams.prototype.get: the value of the first pair named key
ParamsGet(params, key) ==
  IF \E i \in 1..Len(params) : params[i].key = key
  THEN params[CHOOSE i \in 1..Len(params) :
                /\ params[i].key = key
                /\ \A j \in 1..(i - 1) : params[j].key # key].value
  ELSE NullText

\* URLSearchParams.prototype.toString
RECURSIVE ParamsToString(_)
ParamsToString(params) ==
  IF params = <<>> THEN <<>>
  ELSE <<Head(params).key, "=">> \o FormEncode(Head(params).value)
       \o (IF Len(params) > 1 THEN <<"&">> ELSE <<>>)
       \o ParamsToString(Tail(params))

\* the text up to the first sep, and the text after it
Before(s, sep) ==
  IF \E i \in 1..Len(s) : s[i] = sep
  THEN SubSeq(s, 1, (CHOOSE i \in 1..Len(s) :
                       s[i] = sep /\ \A j \in 1..(i - 1) : s[j] # sep) - 1)
  ELSE s

After(s, sep) == Drop(s, Len(Before(s, sep)) + 1)

\* new URLSearchParams(text): a leading "?" is dropped, the text is split
\* at "&", each piece at its first "=", and names and values are decoded
\* one name=value piece of a query string
ParsePair(piece) ==
  IF piece = <<>> THEN <<>>
  ELSE <<[key   |-> IF Before(piece, "=") = <<>> THEN ""
                    ELSE Before(piece, "=")[1],
          value |-> FormDecode(After(piece, "="))]>>

RECURSIVE ParsePairs(_)
ParsePairs(s) ==
  IF s = <<>> THEN <<>>
  ELSE ParsePair(Before(s, "&")) \o ParsePairs(After(s, "&"))

ParseParams(text) ==
  ParsePairs(IF text # <<>> /\ Head(text) = "?" THEN Tail(text) ELSE text)

----------------------------------------------------------------------------
(***************************************************************************)
(* calculatorUtils.ts                                                      *)
(***************************************************************************)
\* the keys of CalculationInputs, in the order Object.entries yields them
Fields == <<"productCost", "sellingPrice", "referralFee", "fbaFee",
            "shippingCost", "ppcBudget", "otherFees">>

FieldSet == {Fields[i] : i \in 1..Len(Fields)}

Hundred == Int2Num(100)

\* a total over every field of the record, the selling price included
totalCostsOfAllFields(inp) ==
  Add(Add(Add(Add(Add(Add(inp.productCost, inp.sellingPrice), inp.referralFee),
                  inp.fbaFee),
              inp.shippingCost),
          inp.ppcBudget),
      inp.otherFees)

totalCosts(inp) ==
  Add(Add(Add(Add(Add(inp.productCost, inp.referralFee), inp.fbaFee),
              inp.shippingCost),
          inp.ppcBudget),
      inp.otherFees)

\* the operands of the subtraction swapped
netProfitSwapped(inp) == Sub(totalCosts(inp), inp.sellingPrice)

netProfit(inp) == Sub(inp.sellingPrice, totalCosts(inp))

\* the margin without the guard on the selling price
profitMarginUnguarded(inp) ==
  Mul(Div(netProfit(inp), inp.sellingPrice), Hundred)

profitMargin(inp) ==
  IF Gt(inp.sellingPrice, Zero)
  THEN Mul(Div(netProfit(inp), inp.sellingPrice), Hundred)
  ELSE Zero

\* Math.floor
Floor(x) == IF ~IsFinite(x) THEN x ELSE Int2Num(x.n \div x.d)

\* the quotient not rounded
breakEvenUnitsUnrounded(inp) ==
  IF StrictNe(netProfit(inp), Zero)
  THEN Abs(Div(totalCosts(inp), Sub(inp.sellingPrice, inp.productCost)))
  ELSE Zero

\* the quotient rounded down instead of up
breakEvenUnitsFloor(inp) ==
  IF StrictNe(netProfit(inp), Zero)
  THEN Floor(Abs(Div(totalCosts(inp),
                     Sub(inp.sellingPrice, inp.productCost))))
  ELSE Zero

\* the README's formula: total costs over net profit per unit
breakEvenUnitsPerUnit(inp) ==
  IF StrictNe(netProfit(inp), Zero)
  THEN Ceil(Abs(Div(totalCosts(inp), netProfit(inp))))
  ELSE Zero

\* the division guarded on its denominator
breakEvenUnitsGuarded(inp) ==
  IF StrictNe(Sub(inp.sellingPrice, inp.productCost), Zero)
  THEN Ceil(Abs(Div(totalCosts(inp),
                    Sub(inp.sellingPrice, inp.productCost))))
  ELSE Zero

breakEvenUnits(inp) ==
  IF StrictNe(netProfit(inp), Zero)
  THEN Ceil(Abs(Div(totalCosts(inp),
                    Sub(inp.sellingPrice, inp.productCost))))
  ELSE Zero

calculateResults(inp) ==
  [netProfit      |-> netProfit(inp),
   profitMargin   |-> profitMargin(inp),
   breakEvenUnits |-> breakEvenUnits(inp),
   totalCosts     |-> totalCosts(inp)]

getSmartDefaults ==
  [referralFee  |-> Zero,
   fbaFee       |-> Zero,
   shippingCost |-> Zero,
   ppcBudget    |-> Zero,
   otherFees    |-> Zero]

SellingPriceMsg == "Selling price must be greater than 0"

ProductCostMsg == "Product cost cannot be negative"

\* a selling price of 0 let through
validateInputsNegativeOnly(inp) ==
  (IF Lt(inp.sellingPrice, Zero) THEN <<SellingPriceMsg>> ELSE <<>>)
  \o (IF Lt(inp.productCost, Zero) THEN <<ProductCostMsg>> ELSE <<>>)

validateInputs(inp) ==
  (IF Le(inp.sellingPrice, Zero) THEN <<SellingPriceMsg>> ELSE <<>>)
  \o (IF Lt(inp.productCost, Zero) THEN <<ProductCostMsg>> ELSE <<>>)

\* The messages of getContextualAdvice.  A message is a sequence of pieces
\* of text; the emoji each message of the source starts with is left out.
NegativeProfitMsg ==
  <<"Negative profit! Consider reducing costs or increasing selling price.">>

LowMarginMsg ==
  <<"Low profit margin. Aim for at least 15% for sustainable business.">>

ExcellentMarginMsg ==
  <<"Excellent profit margin! This is considered healthy for FBA sellers.">>

GoodMarginMsg == <<"Good profit margin. You're on the right track.">>

HighReferralFeeMsg ==
  <<"High referral fee percentage. Check if this is accurate for your category.">>

\* the template literal with results.breakEvenUnits
BreakEvenMsg(units) ==
  <<"At this margin, you'd need to sell ">> \o NumberToString(units)
    \o <<" units monthly to break even.">>

\* the template literal with monthlyRevenue
RevenueMsg(monthlyRevenue) ==
  <<"Selling 100 units monthly would net you $">> \o monthlyRevenue
    \o <<".">>

\* Number.prototype.toFixed(0): the nearest integer, the larger one of two
\* equally near, of the absolute value, after the sign; String(x) for a
\* value that is not finite.  (Values of 1e21 and more do not occur.)
ToFixed0(x) ==
  IF ~IsFinite(x) THEN NumberToString(x)
  ELSE (IF x.n < 0 THEN <<"-">> ELSE <<>>)
       \o IntDigits((2 * AbsInt(x.n) + x.d) \div (2 * x.d))

Fifteen == Int2Num(15)

Twenty == Int2Num(20)

Thirty == Int2Num(30)

referralFeePercentage(inp) ==
  IF Gt(inp.sellingPrice, Zero)
  THEN Mul(Div(inp.referralFee, inp.sellingPrice), Hundred)
  ELSE Zero

\* the margin rules with the test for 20 before the test for 30
getContextualAdviceGoodFirst(res, inp) ==
  (IF Lt(res.netProfit, Zero) THEN <<NegativeProfitMsg>> ELSE <<>>)
  \o (IF Lt(res.profitMargin, Fifteen) THEN <<LowMarginMsg>>
      ELSE IF Ge(res.profitMargin, Twenty) THEN <<GoodMarginMsg>>
      ELSE IF Ge(res.profitMargin, Thirty) THEN <<ExcellentMarginMsg>>
      ELSE <<>>)
  \o (IF Gt(res.netProfit, Zero)
      THEN <<BreakEvenMsg(res.breakEvenUnits),
             RevenueMsg(ToFixed0(Mul(res.netProfit, Hundred)))>>
      ELSE <<>>)
  \o (IF Gt(referralFeePercentage(inp), Twenty)
      THEN <<HighReferralFeeMsg>> ELSE <<>>)

\* the referral fee taken as a percentage of the product cost
getContextualAdviceFeeOfCost(res, inp) ==
  (IF Lt(res.netProfit, Zero) THEN <<NegativeProfitMsg>> ELSE <<>>)
  \o (IF Lt(res.profitMargin, Fifteen) THEN <<LowMarginMsg>>
      ELSE IF Ge(res.profitMargin, Thirty) THEN <<ExcellentMarginMsg>>
      ELSE IF Ge(res.profitMargin, Twenty) THEN <<GoodMarginMsg>>
      ELSE <<>>)
  \o (IF Gt(res.netProfit, Zero)
      THEN <<BreakEvenMsg(res.breakEvenUnits),
             RevenueMsg(ToFixed0(Mul(res.netProfit, Hundred)))>>
      ELSE <<>>)
  \o (IF Gt(inp.productCost, Zero)
         /\ Gt(Mul(Div(inp.referralFee, inp.productCost), Hundred), Twenty)
      THEN <<HighReferralFeeMsg>> ELSE <<>>)

getContextualAdvice(res, inp) ==
  (IF Lt(res.netProfit, Zero) THEN <<NegativeProfitMsg>> ELSE <<>>)
  \o (IF Lt(res.profitMargin, Fifteen) THEN <<LowMarginMsg>>
      ELSE IF Ge(res.profitMargin, Thirty) THEN <<ExcellentMarginMsg>>
      ELSE IF Ge(res.profitMargin, Twenty) THEN <<GoodMarginMsg>>
      ELSE <<>>)
  \o (IF Gt(res.netProfit, Zero)
      THEN <<BreakEvenMsg(res.breakEvenUnits),
             RevenueMsg(ToFixed0(Mul(res.netProfit, Hundred)))>>
      ELSE <<>>)
  \o (IF Gt(referralFeePercentage(inp), Twenty)
      THEN <<HighReferralFeeMsg>> ELSE <<>>)

\* window.location.origin + window.location.pathname, one element of a URL
Location == "origin/pathname"

\* only the positive fields are put in the query string
encodeStateToUrlPositiveOnly(inp) ==
  LET RECURSIVE Each(_, _)
      Each(i, params) ==
        IF i > Len(Fields) THEN params
        ELSE Each(i + 1,
                  IF Gt(inp[Fields[i]], Zero)
                  THEN ParamsSet(params, Fields[i],
                                 NumberToString(inp[Fields[i]]))
                  ELSE params)
  IN  <<Location, "?">> \o ParamsToString(Each(1, <<>>))

encodeStateToUrl(inp) ==
  LET RECURSIVE Each(_, _)
      Each(i, params) ==
        IF i > Len(Fields) THEN params
        ELSE Each(i + 1,
                  IF StrictNe(inp[Fields[i]], Zero)
                  THEN ParamsSet(params, Fields[i],
                                 NumberToString(inp[Fields[i]]))
                  ELSE params)
  IN  <<Location, "?">> \o ParamsToString(Each(1, <<>>))

\* window.location.search of a page opened at url: the text from "?" on,
\* empty when nothing follows the "?"
SearchOf(url) ==
  IF After(url, "?") = <<>> THEN <<>> ELSE <<"?">> \o After(url, "?")

\* parseFloat(value) || 0
OrZero(v) == IF Truthy(v) THEN v ELSE Zero

\* the value read as a whole number: Math.round(parseFloat(value)) || 0
ParseRoundedOrZero(value) ==
  OrZero(IF IsFinite(ParseFloat(value))
         THEN Int2Num(Nearest(ParseFloat(value).n, ParseFloat(value).d))
         ELSE ParseFloat(value))

ParseOrZero(value) == OrZero(ParseFloat(value))

\* `loc` is window.location.search.  The result is a partial record:
\* a function on the keys the query string holds.
DecodeParams(params) ==
  [k \in {key \in FieldSet : ParamsGet(params, key) # NullText} |->
     ParseOrZero(ParamsGet(params, k))]

decodeStateFromUrl(loc) == DecodeParams(ParseParams(loc))

\* { ...base, ...over }
Spread(base, over) ==
  [k \in DOMAIN base \cup DOMAIN over |->
     IF k \in DOMAIN over THEN over[k] ELSE base[k]]

----------------------------------------------------------------------------
(***************************************************************************)
(* FBACalculator.tsx: the calculator view.                                 *)
(***************************************************************************)
NoCall == [fn |-> "none", val |-> Null]

\* the spreads in the other order: the defaults override the URL
InitialInputsDefaultsLast(loc) ==
  Spread(Spread([productCost  |-> Zero,
                 sellingPrice |-> Zero,
                 referralFee  |-> Zero,
                 fbaFee       |-> Zero,
                 shippingCost |-> Zero,
                 ppcBudget    |-> Zero,
                 otherFees    |-> Zero],
                decodeStateFromUrl(loc)),
         getSmartDefaults)

\* useState initialiser of inputs
InitialInputs(loc) ==
  Spread(Spread([productCost  |-> Zero,
                 sellingPrice |-> Zero,
                 referralFee  |-> Zero,
                 fbaFee       |-> Zero,
                 shippingCost |-> Zero,
                 ppcBudget    |-> Zero,
                 otherFees    |-> Zero],
                getSmartDefaults),
         decodeStateFromUrl(loc))

\* the live-calculation effect, run after a render with new inputs: the
\* timeout of the previous run is cleared (its cleanup) and a new one is
\* set when the selling price is positive.  The value is the pending timer.
LiveCalcEffect(inp) == IF Gt(inp.sellingPrice, Zero) THEN inp ELSE Null

\* 0.15, as a number
ReferralRate == Round(15, 100)

\* the state handleInputChange sets for a value that parses to numericValue
NewInputs(field, numericValue) ==
  IF field = "sellingPrice" /\ ~Truthy(inputs.referralFee)
  THEN [inputs EXCEPT ![field] = numericValue,
                      !.referralFee = Mul(numericValue, ReferralRate)]
  ELSE [inputs EXCEPT ![field] = numericValue]

\* no calculateProfit run in flight
NoCalc == [pc |-> "idle", inputs |-> Null]

\* no sendResultsToEmail run in flight
NoSend == [pc |-> "idle"]

\* the state outside the view
page == <<search, clipboard, linkFrom, loaded, call>>

\* one more user event
UserEvent ==
  /\ events < MaxEvents
  /\ events' = events + 1

\* the saved scenarios
scenarios == <<scenario1, scenario2>>

\* the state of the components modelled on their own
others == <<chart, intro>>

\* the state of the two asynchronous handlers
runs == <<isCalculating, calc, email, isSendingEmail, send>>

\* a step that shows nothing, logs nothing and sends nothing
Silent ==
  /\ toasts' = <<>>
  /\ console' = <<>>
  /\ sink' = <<>>

\* handleInputChange without the return for a negative value
handleInputChangeWithoutReturn(field, value) ==
  /\ UserEvent
  /\ inputs' = NewInputs(field, ParseOrZero(value))
  /\ timer' = LiveCalcEffect(inputs')
  /\ edited' = edited \cup {field}
  /\ Silent
  /\ UNCHANGED <<search, results, clipboard, linkFrom, loaded, call>>
  /\ UNCHANGED runs
  /\ UNCHANGED scenarios
  /\ UNCHANGED others

\* the effect without its cleanup: a pending timeout is not cleared by an
\* input event and fires for the inputs it was set for
handleInputChangeWithoutCleanup(field, value) ==
  /\ UserEvent
  /\ IF Lt(ParseOrZero(value), Zero)
     THEN UNCHANGED <<inputs, timer, edited>>
     ELSE /\ inputs' = NewInputs(field, ParseOrZero(value))
          /\ timer' = IF timer # Null THEN timer ELSE LiveCalcEffect(inputs')
          /\ edited' = edited \cup {field}
  /\ Silent
  /\ UNCHANGED <<search, results, clipboard, linkFrom, loaded, call>>
  /\ UNCHANGED runs
  /\ UNCHANGED scenarios
  /\ UNCHANGED others

handleInputChange(field, value) ==
  /\ UserEvent
  /\ IF Lt(ParseOrZero(value), Zero)
     THEN UNCHANGED <<inputs, timer, edited>>
     ELSE /\ inputs' = NewInputs(field, ParseOrZero(value))
          /\ timer' = LiveCalcEffect(inputs')
          /\ edited' = edited \cup {field}
  /\ Silent
  /\ UNCHANGED <<search, results, clipboard, linkFrom, loaded, call>>
  /\ UNCHANGED runs
  /\ UNCHANGED scenarios
  /\ UNCHANGED others

\* the timeout fires and its callback leaves the results alone
LiveCalculationWithoutResults ==
  /\ timer # Null
  /\ timer' = Null
  /\ Silent
  /\ UNCHANGED <<inputs, results, edited, events>>
  /\ UNCHANGED page
  /\ UNCHANGED runs
  /\ UNCHANGED scenarios
  /\ UNCHANGED others

\* the timeout of the live-calculation effect fires
LiveCalculation ==
  /\ timer # Null
  /\ results' = calculateResults(timer)
  /\ timer' = Null
  /\ Silent
  /\ UNCHANGED <<inputs, edited, events>>
  /\ UNCHANGED page
  /\ UNCHANGED runs
  /\ UNCHANGED scenarios
  /\ UNCHANGED others

\* one notification for every error of the list
ValidationToastsForAll(errors) ==
  [i \in 1..Len(errors) |->
     [title       |-> "Validation Error",
      description |-> errors[i],
      variant     |-> "destructive"]]

\* the notification of validateInputsFunc for a list of errors
ValidationToasts(errors) ==
  IF Len(errors) > 0
  THEN <<[title       |-> "Validation Error",
          description |-> errors[1],
          variant     |-> "destructive"]>>
  ELSE <<>>

\* the row calculateProfit passes to the insert
CalculationRow(inp, res) ==
  [product_cost     |-> inp.productCost,
   selling_price    |-> inp.sellingPrice,
   referral_fee     |-> inp.referralFee,
   fba_fee          |-> inp.fbaFee,
   shipping_cost    |-> inp.shippingCost,
   ppc_budget       |-> inp.ppcBudget,
   other_fees       |-> inp.otherFees,
   net_profit       |-> res.netProfit,
   profit_margin    |-> res.profitMargin,
   break_even_units |-> res.breakEvenUnits]

\* the row sendResultsToEmail passes to the insert
EmailRow(inp, res, address) ==
  [product_cost     |-> inp.productCost,
   selling_price    |-> inp.sellingPrice,
   referral_fee     |-> inp.referralFee,
   fba_fee          |-> inp.fbaFee,
   shipping_cost    |-> inp.shippingCost,
   ppc_budget       |-> inp.ppcBudget,
   other_fees       |-> inp.otherFees,
   net_profit       |-> res.netProfit,
   profit_margin    |-> res.profitMargin,
   break_even_units |-> res.breakEvenUnits,
   email            |-> address]

\* how an awaited insert ends: it resolves without an error, it resolves
\* with an error in its result, or it rejects (the await throws).  It may
\* also never end: then no step is taken.
InsertOutcomes == {"ok", "error", "rejected"}

\* calculateProfit behind a button that is never disabled
calculateProfitNeverDisabled ==
  /\ UserEvent
  /\ toasts' = ValidationToasts(validateInputs(inputs))
  /\ console' = <<>>
  /\ sink' = <<>>
  /\ IF Len(validateInputs(inputs)) > 0
     THEN UNCHANGED <<isCalculating, calc>>
     ELSE /\ isCalculating' = TRUE
          /\ calc' = [pc |-> "delay", inputs |-> inputs]
  /\ UNCHANGED <<inputs, results, timer, edited, email, isSendingEmail, send>>
  /\ UNCHANGED page
  /\ UNCHANGED scenarios
  /\ UNCHANGED others

\* calculateProfit without the early return after validateInputsFunc
calculateProfitWithoutReturn ==
  /\ ~isCalculating
  /\ UserEvent
  /\ toasts' = ValidationToasts(validateInputs(inputs))
  /\ console' = <<>>
  /\ sink' = <<>>
  /\ isCalculating' = TRUE
  /\ calc' = [pc |-> "delay", inputs |-> inputs]
  /\ UNCHANGED <<inputs, results, timer, edited, email, isSendingEmail, send>>
  /\ UNCHANGED page
  /\ UNCHANGED scenarios
  /\ UNCHANGED others

\* a click on Calculate (enabled while isCalculating is false): the part of
\* calculateProfit up to its first await
calculateProfit ==
  /\ ~isCalculating
  /\ UserEvent
  /\ toasts' = ValidationToasts(validateInputs(inputs))
  /\ console' = <<>>
  /\ sink' = <<>>
  /\ IF Len(validateInputs(inputs)) > 0
     THEN UNCHANGED <<isCalculating, calc>>
     ELSE /\ isCalculating' = TRUE
          /\ calc' = [pc |-> "delay", inputs |-> inputs]
  /\ UNCHANGED <<inputs, results, timer, edited, email, isSendingEmail, send>>
  /\ UNCHANGED page
  /\ UNCHANGED scenarios
  /\ UNCHANGED others

\* the 500 ms timeout of calculateProfit fires: the results are set from
\* the inputs of the render that was clicked, and the insert is started
calculateProfitResumes ==
  /\ calc.pc = "delay"
  /\ results' = calculateResults(calc.inputs)
  /\ sink' = <<CalculationRow(calc.inputs, calculateResults(calc.inputs))>>
  /\ calc' = [calc EXCEPT !.pc = "insert"]
  /\ toasts' = <<>>
  /\ console' = <<>>
  /\ UNCHANGED <<inputs, timer, edited, isCalculating, email, isSendingEmail,
                 send, events>>
  /\ UNCHANGED page
  /\ UNCHANGED scenarios
  /\ UNCHANGED others

\* the insert awaited outside a try block: a rejection ends the run before
\* setIsCalculating(false)
calculateProfitInsertEndsUncaught(outcome) ==
  /\ calc.pc = "insert"
  /\ console' = IF outcome = "rejected"
                THEN <<"Uncaught (in promise)">>
                ELSE <<>>
  /\ isCalculating' = (outcome = "rejected")
  /\ calc' = NoCalc
  /\ toasts' = <<>>
  /\ sink' = <<>>
  /\ UNCHANGED <<inputs, results, timer, edited, email, isSendingEmail, send,
                 events>>
  /\ UNCHANGED page
  /\ UNCHANGED scenarios
  /\ UNCHANGED others

\* the insert of calculateProfit ends
calculateProfitInsertEnds(outcome) ==
  /\ calc.pc = "insert"
  /\ console' = IF outcome = "rejected"
                THEN <<"Error logging calculation:">>
                ELSE <<>>
  /\ isCalculating' = FALSE
  /\ calc' = NoCalc
  /\ toasts' = <<>>
  /\ sink' = <<>>
  /\ UNCHANGED <<inputs, results, timer, edited, email, isSendingEmail, send,
                 events>>
  /\ UNCHANGED page
  /\ UNCHANGED scenarios
  /\ UNCHANGED others

\* the addresses typed into the email field
Addresses == {"", "a@b.c"}

\* onChange of the email field
setEmail(value) ==
  /\ email # value
  /\ email' = value
  /\ Silent
  /\ UNCHANGED <<inputs, results, timer, edited, isCalculating, calc,
                 isSendingEmail, send, events>>
  /\ UNCHANGED page
  /\ UNCHANGED scenarios
  /\ UNCHANGED others

\* sendResultsToEmail up to its await
sendResultsToEmail ==
  /\ ~isSendingEmail
  /\ UserEvent
  /\ IF email = "" \/ results = Null
     THEN /\ sink' = <<>>
          /\ UNCHANGED <<isSendingEmail, send>>
     ELSE /\ isSendingEmail' = TRUE
          /\ send' = [pc |-> "insert"]
          /\ sink' = <<EmailRow(inputs, results, email)>>
  /\ toasts' = <<>>
  /\ console' = <<>>
  /\ UNCHANGED <<inputs, results, timer, edited, isCalculating, calc, email>>
  /\ UNCHANGED page
  /\ UNCHANGED scenarios
  /\ UNCHANGED others

EmailSentToast ==
  [title       |-> "Email Sent!",
   description |-> "Your calculation results have been sent to your inbox.",
   variant     |-> "default"]

EmailErrorToast ==
  [title       |-> "Error",
   description |-> "Failed to send email. Please try again.",
   variant     |-> "destructive"]

\* the insert of sendResultsToEmail ends
sendResultsToEmailInsertEnds(outcome) ==
  /\ send.pc = "insert"
  /\ IF outcome = "rejected"
     THEN /\ console' = <<"Error sending email:">>
          /\ toasts' = <<EmailErrorToast>>
          /\ UNCHANGED email
     ELSE /\ console' = <<>>
          /\ toasts' = <<EmailSentToast>>
          /\ email' = ""
  /\ isSendingEmail' = FALSE
  /\ send' = NoSend
  /\ sink' = <<>>
  /\ UNCHANGED <<inputs, results, timer, edited, isCalculating, calc, events>>
  /\ UNCHANGED page
  /\ UNCHANGED scenarios
  /\ UNCHANGED others

\* the notification of saveScenario
ScenarioSavedToast(scenarioNumber) ==
  [title       |-> "Scenario Saved",
   description |-> IF scenarioNumber = 1
                   THEN "Scenario 1 has been saved successfully."
                   ELSE "Scenario 2 has been saved successfully.",
   variant     |-> "default"]

\* saveScenario that sets both scenarios
saveScenarioBoth(scenarioNumber) ==
  /\ UserEvent
  /\ scenario1' = inputs
  /\ scenario2' = inputs
  /\ toasts' = <<ScenarioSavedToast(scenarioNumber)>>
  /\ console' = <<>>
  /\ sink' = <<>>
  /\ UNCHANGED <<inputs, results, timer, edited>>
  /\ UNCHANGED runs
  /\ UNCHANGED page
  /\ UNCHANGED others

\* a click on "Save as #1" or "Save as #2".  The state holds the inputs
\* object of the render; no code writes to an inputs object after it was
\* built, so the scenario is the value of the inputs.
saveScenario(scenarioNumber) ==
  /\ UserEvent
  /\ IF scenarioNumber = 1
     THEN scenario1' = inputs /\ UNCHANGED scenario2
     ELSE scenario2' = inputs /\ UNCHANGED scenario1
  /\ toasts' = <<ScenarioSavedToast(scenarioNumber)>>
  /\ console' = <<>>
  /\ sink' = <<>>
  /\ UNCHANGED <<inputs, results, timer, edited>>
  /\ UNCHANGED runs
  /\ UNCHANGED page
  /\ UNCHANGED others

LinkCopiedToast ==
  [title       |-> "Link Copied",
   description |-> "Share link has been copied to your clipboard.",
   variant     |-> "default"]

\* copyToClipboard: the text is on the clipboard when writeText or the
\* textarea fallback copied it, and the clipboard is as it was when neither
\* did; nothing is thrown and nothing is logged either way
copyToClipboard(text, copied) == IF copied THEN text ELSE clipboard

handleCopyShareLink ==
  /\ UserEvent
  /\ \E copied \in BOOLEAN :
       /\ clipboard' = copyToClipboard(encodeStateToUrl(inputs), copied)
       /\ linkFrom' = IF copied THEN inputs ELSE linkFrom
  /\ toasts' = <<LinkCopiedToast>>
  /\ console' = <<>>
  /\ sink' = <<>>
  /\ UNCHANGED <<search, inputs, results, timer, loaded, call, edited>>
  /\ UNCHANGED runs
  /\ UNCHANGED scenarios
  /\ UNCHANGED others

\* the view is mounted on a page whose location.search is loc
Mount(loc) ==
  /\ search' = loc
  /\ inputs' = InitialInputs(loc)
  /\ results' = Null
  /\ timer' = LiveCalcEffect(inputs')
  /\ edited' = {}
  /\ isCalculating' = FALSE
  /\ calc' = NoCalc
  /\ email' = ""
  /\ isSendingEmail' = FALSE
  /\ send' = NoSend
  /\ Silent
  /\ scenario1' = Null
  /\ scenario2' = Null

\* the link on the clipboard is opened: a new page, a new view
OpenShareLink ==
  /\ clipboard # <<>>
  /\ UserEvent
  /\ Mount(SearchOf(clipboard))
  /\ loaded' = "share"
  /\ UNCHANGED <<clipboard, linkFrom, call>>
  /\ UNCHANGED others

\* what a user types into a number field (the field's value attribute)
Typed(field) ==
  CASE field = "sellingPrice" -> {<<"2", "0">>, <<"6", "4">>, <<>>, <<"-", "1">>}
    [] field = "productCost"  -> {<<"5">>, <<"-", "1">>}
    [] field = "referralFee"  -> {<<"3">>, <<"0">>}
    [] field = "fbaFee"       -> {<<"4">>}
    [] field = "shippingCost" -> {<<"2", ".", "5">>}
    [] OTHER                  -> {<<"1">>}

\* the query strings the page is first opened with
Searches ==
  { <<>>,
    <<"?", "sellingPrice", "=", "2", "0", "&", "productCost", "=", "5">>,
    <<"?", "productCost", "=", "-", "3", "&", "fbaFee", "=", "a", "b">>,
    <<"?", "sellingPrice", "=", "I", "n", "f", "i", "n", "i", "t", "y">>,
    <<"?", "sellingPrice", "=", "1", "e", "%", "2", "B", "1", "&",
      "referralFee", "=", "0", ".", "1", "5">> }

Init ==
  /\ search \in Searches
  /\ inputs = InitialInputs(search)
  /\ results = Null
  /\ timer = LiveCalcEffect(inputs)
  /\ clipboard = <<>>
  /\ linkFrom = Null
  /\ loaded = "url"
  /\ events = 0
  /\ call = NoCall
  /\ edited = {}
  /\ isCalculating = FALSE
  /\ calc = NoCalc
  /\ email = ""
  /\ isSendingEmail = FALSE
  /\ send = NoSend
  /\ toasts = <<>>
  /\ console = <<>>
  /\ sink = <<>>
  /\ scenario1 = Null
  /\ scenario2 = Null
  /\ chart = Null
  /\ intro = Null

Next ==
  \/ \E field \in FieldSet : \E value \in Typed(field) :
       handleInputChange(field, value)
  \/ LiveCalculation
  \/ calculateProfit
  \/ calculateProfitResumes
  \/ \E outcome \in InsertOutcomes : calculateProfitInsertEnds(outcome)
  \/ \E value \in Addresses : setEmail(value)
  \/ sendResultsToEmail
  \/ \E outcome \in InsertOutcomes : sendResultsToEmailInsertEnds(outcome)
  \/ handleCopyShareLink
  \/ \E scenarioNumber \in {1, 2} : saveScenario(scenarioNumber)
  \/ OpenShareLink

Spec == Init /\ [][Next]_vars

\* a pending timeout ends: its callback runs (LiveCalculation) or the
\* cleanup of the effect clears it
TimeoutEnds == timer # Null /\ timer' = Null

\* no timeout stays pending for ever.  LiveCalculation is enabled exactly
\* while timer # Null, so this is weak fairness of LiveCalculation.
SpecLive == Spec /\ WF_timer(TimeoutEnds)

----------------------------------------------------------------------------
(***************************************************************************)
(* The library functions called directly, on every input record of a       *)
(* bounded set.                                                            *)
(***************************************************************************)
\* the values of productCost and sellingPrice
PriceValues ==
  {Zero, Int2Num(5), Int2Num(20), Int2Num(64), Int2Num(-1), Rat(5, 2), PosInf}

InputRecords ==
  [productCost  : PriceValues,
   sellingPrice : PriceValues,
   referralFee  : {Zero, Int2Num(3), ReferralRate},
   fbaFee       : {Zero, Int2Num(4)},
   shippingCost : {Zero, Int2Num(1)},
   ppcBudget    : {Zero, Int2Num(1)},
   otherFees    : {Zero, Int2Num(1), Int2Num(-1)}]

InitCalc ==
  /\ inputs \in InputRecords
  /\ search = <<>>
  /\ results = Null
  /\ timer = Null
  /\ clipboard = <<>>
  /\ linkFrom = Null
  /\ loaded = "url"
  /\ events = 0
  /\ call = NoCall
  /\ edited = {}
  /\ isCalculating = FALSE
  /\ calc = NoCalc
  /\ email = ""
  /\ isSendingEmail = FALSE
  /\ send = NoSend
  /\ toasts = <<>>
  /\ console = <<>>
  /\ sink = <<>>
  /\ scenario1 = Null
  /\ scenario2 = Null
  /\ chart = Null
  /\ intro = Null

\* the state of the view, which a direct library call leaves alone
view == <<results, timer, edited, isCalculating, calc, email, isSendingEmail,
          send, toasts, console, sink, scenario1, scenario2, chart, intro>>

CallCalculateResults ==
  /\ call' = [fn |-> "calculateResults", val |-> calculateResults(inputs)]
  /\ UNCHANGED <<search, inputs, clipboard, linkFrom, loaded, events>>
  /\ UNCHANGED view

CallValidateInputs ==
  /\ call' = [fn |-> "validateInputs", val |-> validateInputs(inputs)]
  /\ UNCHANGED <<search, inputs, clipboard, linkFrom, loaded, events>>
  /\ UNCHANGED view

CallEncodeStateToUrl ==
  /\ call' = [fn |-> "encodeStateToUrl", val |-> encodeStateToUrl(inputs)]
  /\ UNCHANGED <<search, inputs, clipboard, linkFrom, loaded, events>>
  /\ UNCHANGED view

\* decodeStateFromUrl on the page the encoded URL opens
CallDecodeStateFromUrl ==
  /\ call.fn = "encodeStateToUrl"
  /\ search' = SearchOf(call.val)
  /\ call' = [fn |-> "decodeStateFromUrl", val |-> decodeStateFromUrl(search')]
  /\ UNCHANGED <<inputs, clipboard, linkFrom, loaded, events>>
  /\ UNCHANGED view

\* getContextualAdvice as the view calls it, on results and inputs
CallGetContextualAdvice ==
  /\ call' = [fn  |-> "getContextualAdvice",
              val |-> getContextualAdvice(calculateResults(inputs), inputs)]
  /\ UNCHANGED <<search, inputs, clipboard, linkFrom, loaded, events>>
  /\ UNCHANGED view

NextCalc ==
  \/ CallCalculateResults
  \/ CallGetContextualAdvice
  \/ CallValidateInputs
  \/ CallEncodeStateToUrl
  \/ CallDecodeStateFromUrl

SpecCalc == InitCalc /\ [][NextCalc]_vars

----------------------------------------------------------------------------
(***************************************************************************)
(* Properties of calculateResults (checked under SpecCalc).                *)
(***************************************************************************)
(***************************************************************************)
(* ProfitChart: the two series derived in useMemo, one loop each.  A step  *)
(* is one evaluation of the loop condition of the series being derived,    *)
(* with the loop body when it holds.  Of the points pushed only their      *)
(* number is kept: the loop does not read them.                            *)
(***************************************************************************)
\* Math.max
MathMax(x, y) ==
  IF IsNaN(x) \/ IsNaN(y) THEN NaN ELSE IF Lt(x, y) THEN y ELSE x

\* the useState initialiser of priceRange
InitialPriceRange(inp) ==
  <<MathMax(Int2Num(5), Sub(inp.sellingPrice, Int2Num(10))),
    Add(inp.sellingPrice, Int2Num(10))>>

\* the useState initialiser of volumeRange
InitialVolumeRange == <<Int2Num(10), Int2Num(200)>>

\* (range[1] - range[0]) / 20
SeriesStep(range) == Div(Sub(range[2], range[1]), Int2Num(20))

\* ranges of the price slider (min 1, max 100, step 0.5; the two thumbs may
\* meet)
PriceRanges ==
  { <<Int2Num(1), Int2Num(1)>>, <<Int2Num(1), Int2Num(11)>>,
    <<Int2Num(1), Int2Num(21)>>, <<Int2Num(5), Int2Num(15)>>,
    <<Int2Num(11), Int2Num(11)>> }

\* ranges of the volume slider (min 10, max 500, step 10)
VolumeRanges ==
  { <<Int2Num(10), Int2Num(10)>>, <<Int2Num(10), Int2Num(30)>>,
    <<Int2Num(30), Int2Num(30)>>, <<Int2Num(10), Int2Num(200)>> }

\* the range the series named memo is derived over
RangeOf(memo) ==
  IF memo = "priceData" THEN chart.priceRange ELSE chart.volumeRange

\* the state of the component when the series of todo are to be derived
\* over the ranges price and volume: the loop variable of the first one is
\* initialised
Render(price, volume, todo) ==
  [priceRange  |-> price,
   volumeRange |-> volume,
   todo        |-> todo,
   x           |-> IF todo = <<>> THEN Zero
                   ELSE IF Head(todo) = "priceData" THEN price[1]
                   ELSE volume[1],
   n           |-> 0]

\* one evaluation of "x <= range[1]" in the loop of memo: a point is pushed
\* and x += step, or the loop is left and the next series is started
SeriesLoop(memo) ==
  /\ chart # Null
  /\ chart.todo # <<>>
  /\ Head(chart.todo) = memo
  /\ chart' =
       IF Le(chart.x, RangeOf(memo)[2])
       THEN [chart EXCEPT
               !.x = Add(chart.x, SeriesStep(RangeOf(memo))),
               !.n = IF chart.n < MaxPoints THEN chart.n + 1 ELSE MaxPoints]
       ELSE Render(chart.priceRange, chart.volumeRange, Tail(chart.todo))
  /\ UNCHANGED <<search, inputs, clipboard, linkFrom, loaded, events, call,
                 intro>>
  /\ UNCHANGED <<results, timer, edited, toasts, console, sink>>
  /\ UNCHANGED runs
  /\ UNCHANGED scenarios

priceData == SeriesLoop("priceData")

volumeData == SeriesLoop("volumeData")

\* onValueChange of the price slider, between two renders
setPriceRange(range) ==
  /\ chart # Null
  /\ chart.todo = <<>>
  /\ range # chart.priceRange
  /\ chart' = Render(range, chart.volumeRange, <<"priceData">>)
  /\ UNCHANGED <<search, inputs, clipboard, linkFrom, loaded, events, call,
                 intro>>
  /\ UNCHANGED <<results, timer, edited, toasts, console, sink>>
  /\ UNCHANGED runs
  /\ UNCHANGED scenarios

\* onValueChange of the volume slider, between two renders
setVolumeRange(range) ==
  /\ chart # Null
  /\ chart.todo = <<>>
  /\ range # chart.volumeRange
  /\ chart' = Render(chart.priceRange, range, <<"volumeData">>)
  /\ UNCHANGED <<search, inputs, clipboard, linkFrom, loaded, events, call,
                 intro>>
  /\ UNCHANGED <<results, timer, edited, toasts, console, sink>>
  /\ UNCHANGED runs
  /\ UNCHANGED scenarios

\* the inputs the chart is rendered for
ChartInputs ==
  { r \in InputRecords :
      /\ r.sellingPrice \in {Int2Num(5), Int2Num(20)}
      /\ r.productCost = Int2Num(5)
      /\ r.referralFee = Int2Num(3)
      /\ r.fbaFee = Zero
      /\ r.shippingCost = Int2Num(1)
      /\ r.ppcBudget = Zero
      /\ r.otherFees = Zero }

\* the chart is mounted with inputs and their results: both series are
\* derived
InitChart ==
  /\ inputs \in ChartInputs
  /\ results = calculateResults(inputs)
  /\ chart = Render(InitialPriceRange(inputs), InitialVolumeRange,
                    <<"priceData", "volumeData">>)
  /\ search = <<>>
  /\ timer = Null
  /\ clipboard = <<>>
  /\ linkFrom = Null
  /\ loaded = "url"
  /\ events = 0
  /\ call = NoCall
  /\ edited = {}
  /\ isCalculating = FALSE
  /\ calc = NoCalc
  /\ email = ""
  /\ isSendingEmail = FALSE
  /\ send = NoSend
  /\ toasts = <<>>
  /\ console = <<>>
  /\ sink = <<>>
  /\ scenario1 = Null
  /\ scenario2 = Null
  /\ intro = Null

NextChart ==
  \/ priceData
  \/ volumeData
  \/ \E range \in PriceRanges : setPriceRange(range)
  \/ \E range \in VolumeRanges : setVolumeRange(range)

SpecChart == InitChart /\ [][NextChart]_vars

----------------------------------------------------------------------------
(***************************************************************************)
(* The claims.                                                             *)
(***************************************************************************)

(***************************************************************************)
(* IntroScreen, rendered by FBACalculator while showIntro.  Timeouts are   *)
(* pending or not; of their times only the order of two pending ones is    *)
(* kept.  text is always a prefix of fullText and is kept as its length.   *)
(***************************************************************************)
\* fullText.length
FullTextLength == 40

\* the state outside the intro
calculator ==
  <<search, inputs, results, timer, clipboard, linkFrom, loaded, events, call,
    edited, isCalculating, calc, email, isSendingEmail, send, toasts, console,
    sink, scenario1, scenario2, chart>>

\* FBACalculator and IntroScreen after their first render and the first run
\* of the effect
IntroMounted ==
  [showIntro       |-> TRUE,
   showScreen      |-> TRUE,
   text            |-> 0,
   currentIndex    |-> 0,
   typeInterval    |-> TRUE,
   hideTimer       |-> TRUE,
   fadeTimers      |-> 0,
   renders         |-> 0,
   onCompleteCalls |-> 0]

\* the callback of typeInterval
TypeIntervalFires ==
  /\ intro # Null
  /\ intro.typeInterval
  /\ intro' =
       IF intro.currentIndex <= FullTextLength
       THEN [intro EXCEPT !.text = intro.currentIndex,
                          !.currentIndex = intro.currentIndex + 1]
       ELSE [intro EXCEPT !.typeInterval = FALSE]
  /\ UNCHANGED calculator

\* the callback of hideTimer that sets no timeout for onComplete
HideTimerFiresWithoutFade ==
  /\ intro # Null
  /\ intro.hideTimer
  /\ intro.fadeTimers = 0
  /\ intro' = [intro EXCEPT !.showScreen = FALSE, !.hideTimer = FALSE]
  /\ UNCHANGED calculator

\* the callback of hideTimer.  A hideTimer (4000 ms) set while a timeout
\* for onComplete (1000 ms) is pending is due after it.
HideTimerFires ==
  /\ intro # Null
  /\ intro.hideTimer
  /\ intro.fadeTimers = 0
  /\ intro' = [intro EXCEPT !.showScreen = FALSE,
                            !.hideTimer = FALSE,
                            !.fadeTimers = intro.fadeTimers + 1]
  /\ UNCHANGED calculator

\* the timeout set by the callback of hideTimer fires: onComplete is
\* called, which is setShowIntro(false) whatever render it is of.  When
\* that unmounts IntroScreen, the cleanup of its effect runs.
onComplete ==
  /\ intro # Null
  /\ intro.fadeTimers > 0
  /\ intro' = [intro EXCEPT !.fadeTimers = intro.fadeTimers - 1,
                            !.onCompleteCalls = 1,
                            !.showIntro = FALSE,
                            !.typeInterval = FALSE,
                            !.hideTimer = FALSE]
  /\ UNCHANGED calculator

\* FBACalculator renders again while the intro is shown (setResults of the
\* live calculation, a change of useIsMobile): IntroScreen gets a new
\* onComplete function, so the cleanup of its effect runs and the effect
\* runs again.  The timeout for onComplete is not cleared by the cleanup.
ParentRenders ==
  /\ intro # Null
  /\ intro.showIntro
  /\ intro.renders < MaxRenders
  /\ intro' = [intro EXCEPT !.renders = intro.renders + 1,
                            !.currentIndex = 0,
                            !.typeInterval = TRUE,
                            !.hideTimer = TRUE]
  /\ UNCHANGED calculator

InitIntro ==
  /\ intro = IntroMounted
  /\ search = <<>>
  /\ inputs = InitialInputs(search)
  /\ results = Null
  /\ timer = Null
  /\ clipboard = <<>>
  /\ linkFrom = Null
  /\ loaded = "url"
  /\ events = 0
  /\ call = NoCall
  /\ edited = {}
  /\ isCalculating = FALSE
  /\ calc = NoCalc
  /\ email = ""
  /\ isSendingEmail = FALSE
  /\ send = NoSend
  /\ toasts = <<>>
  /\ console = <<>>
  /\ sink = <<>>
  /\ scenario1 = Null
  /\ scenario2 = Null
  /\ chart = Null

NextIntro ==
  \/ TypeIntervalFires
  \/ HideTimerFires
  \/ onComplete
  \/ ParentRenders

\* a pending timeout fires unless it is cleared
SpecIntro ==
  /\ InitIntro
  /\ [][NextIntro]_vars
  /\ WF_intro(HideTimerFires)
  /\ WF_intro(onComplete)

Calculated == call.fn = "calculateResults"

NonNegative(inp) == \A f \in FieldSet : Ge(inp[f], Zero)

OtherCosts == FieldSet \ {"productCost", "sellingPrice"}

\* C1: for an input record with every field non-negative and
\* sellingPrice > 0, the totalCosts returned is productCost + referralFee +
\* fbaFee + shippingCost + ppcBudget + otherFees; sellingPrice is no part
\* of the sum.
C1_TotalCostsIsSumOfSix ==
  (Calculated /\ NonNegative(inputs) /\ Gt(inputs.sellingPrice, Zero)) =>
    call.val.totalCosts =
      Add(Add(Add(Add(Add(inputs.productCost, inputs.referralFee),
                      inputs.fbaFee),
                  inputs.shippingCost),
              inputs.ppcBudget),
          inputs.otherFees)

C1_Witness ==
  /\ Calculated
  /\ NonNegative(inputs)
  /\ Gt(inputs.sellingPrice, Zero)
  /\ inputs.referralFee = ReferralRate
  /\ inputs.otherFees # Zero
  /\ inputs.productCost = Rat(5, 2)

\* C2: the netProfit returned is sellingPrice minus the totalCosts returned
\* in the same record.
C2_NetProfitIsPriceMinusCosts ==
  Calculated =>
    call.val.netProfit = Sub(inputs.sellingPrice, call.val.totalCosts)

C2_Witness ==
  /\ Calculated
  /\ IsFinite(call.val.netProfit)
  /\ Lt(call.val.netProfit, Zero)
  /\ Gt(inputs.sellingPrice, Zero)

\* C3: the profitMargin returned is netProfit / sellingPrice * 100 when
\* sellingPrice > 0, and 0 when sellingPrice is 0 or negative, whatever the
\* cost fields are.
C3_ProfitMargin ==
  Calculated =>
    /\ Gt(inputs.sellingPrice, Zero) =>
         call.val.profitMargin =
           Mul(Div(call.val.netProfit, inputs.sellingPrice), Hundred)
    /\ Le(inputs.sellingPrice, Zero) => call.val.profitMargin = Zero

C3_Witness ==
  /\ Calculated
  /\ Lt(inputs.sellingPrice, Zero)
  /\ call.val.totalCosts # Zero
  /\ call.val.profitMargin = Zero

\* C4: the breakEvenUnits returned is
\* ceiling(|totalCosts / (sellingPrice - productCost)|) when netProfit is
\* not 0, and 0 when netProfit is 0.
C4_BreakEvenUnits ==
  Calculated =>
    /\ StrictNe(call.val.netProfit, Zero) =>
         call.val.breakEvenUnits =
           Ceil(Abs(Div(call.val.totalCosts,
                        Sub(inputs.sellingPrice, inputs.productCost))))
    /\ call.val.netProfit = Zero => call.val.breakEvenUnits = Zero

C4_Witness ==
  /\ Calculated
  /\ StrictNe(call.val.netProfit, Zero)
  /\ IsFinite(call.val.breakEvenUnits)
  /\ Gt(call.val.breakEvenUnits, Int2Num(1))
  /\ Lt(inputs.sellingPrice, inputs.productCost)

Example ==
  [productCost  |-> Int2Num(5),
   sellingPrice |-> Int2Num(20),
   referralFee  |-> Int2Num(3),
   fbaFee       |-> Int2Num(4),
   shippingCost |-> Int2Num(1),
   ppcBudget    |-> Int2Num(1),
   otherFees    |-> Int2Num(1)]

\* C5: for {productCost: 5, sellingPrice: 20, referralFee: 3, fbaFee: 4,
\* shippingCost: 1, ppcBudget: 1, otherFees: 1} the result is
\* totalCosts = 15, netProfit = 5, profitMargin = 25, breakEvenUnits = 1.
C5_Example ==
  (Calculated /\ inputs = Example) =>
    call.val = [totalCosts     |-> Int2Num(15),
                netProfit      |-> Int2Num(5),
                profitMargin   |-> Int2Num(25),
                breakEvenUnits |-> Int2Num(1)]

C5_Witness == Calculated /\ inputs = Example

\* C6: for inputs with netProfit > 0, the breakEvenUnits returned is
\* totalCosts divided by netProfit (the net profit per unit), rounded up.
C6_BreakEvenIsCostsOverNetProfit ==
  (Calculated /\ Gt(call.val.netProfit, Zero)) =>
    call.val.breakEvenUnits =
      Ceil(Div(call.val.totalCosts, call.val.netProfit))

\* productCost equals sellingPrice and one of the other five costs is not 0
PriceIsCostWithOtherCosts(inp) ==
  /\ NonNegative(inp)
  /\ inp.productCost = inp.sellingPrice
  /\ \E f \in OtherCosts : inp[f] # Zero

\* C7, as stated: for every non-negative input record with productCost
\* equal to sellingPrice and one of the other five cost fields not 0, the
\* breakEvenUnits returned is not finite.
C7_AsStated ==
  (Calculated /\ PriceIsCostWithOtherCosts(inputs)) =>
    ~IsFinite(call.val.breakEvenUnits)

\* C7, amended: for such a record the breakEvenUnits returned is not finite
\* when the netProfit computed is not 0, and is 0 when the other costs are
\* lost in the rounding of the sum, so that totalCosts equals sellingPrice
\* and netProfit is 0.
C7_NonFiniteBreakEven ==
  (Calculated /\ PriceIsCostWithOtherCosts(inputs)) =>
    /\ StrictNe(call.val.netProfit, Zero) => ~IsFinite(call.val.breakEvenUnits)
    /\ call.val.netProfit = Zero =>
         /\ call.val.totalCosts = inputs.sellingPrice
         /\ call.val.breakEvenUnits = Zero

C7_Witness ==
  /\ Calculated
  /\ PriceIsCostWithOtherCosts(inputs)
  /\ IsFinite(inputs.sellingPrice)
  /\ StrictNe(call.val.netProfit, Zero)
  /\ call.val.breakEvenUnits = PosInf

----------------------------------------------------------------------------
(***************************************************************************)
(* Properties of the URL encoding and of validateInputs (SpecCalc), and of *)
(* share links in the view (Spec).                                         *)
(***************************************************************************)
\* C8: decoding the query string of encodeStateToUrl(x) with
\* decodeStateFromUrl gives a record in which every field that is not 0 in
\* x has the value it has in x.
C8_RoundTrip ==
  call.fn = "decodeStateFromUrl" =>
    \A f \in FieldSet :
      StrictNe(inputs[f], Zero) =>
        f \in DOMAIN call.val /\ call.val[f] = inputs[f]

C8_Witness ==
  /\ call.fn = "decodeStateFromUrl"
  /\ inputs.referralFee = ReferralRate
  /\ inputs.productCost = Rat(5, 2)
  /\ inputs.sellingPrice = PosInf
  /\ inputs.otherFees = Int2Num(-1)
  /\ inputs.fbaFee = Zero
  /\ "fbaFee" \notin DOMAIN call.val

\* C9: opening a share link generated from the input record x initialises
\* the inputs of the view to x on all seven fields: the fields in the link
\* take the decoded value, the fields left out of it (0 in x) are 0.
C9_ShareLinkRestoresInputs == [][OpenShareLink => inputs' = linkFrom]_vars

C9_Witness ==
  /\ loaded = "share"
  /\ inputs = linkFrom
  /\ \E f \in FieldSet : inputs[f] = Zero
  /\ \E f \in FieldSet : inputs[f] # Zero /\ inputs[f].d > 1
  /\ search # <<>>

\* C10: validateInputs returns the selling-price message iff
\* sellingPrice <= 0 and the negative-product-cost message iff
\* productCost < 0, and nothing else: the list is not empty exactly when
\* sellingPrice <= 0 or productCost < 0.
C10_ValidateInputs ==
  call.fn = "validateInputs" =>
    /\ (\E i \in 1..Len(call.val) : call.val[i] = SellingPriceMsg)
         <=> Le(inputs.sellingPrice, Zero)
    /\ (\E i \in 1..Len(call.val) : call.val[i] = ProductCostMsg)
         <=> Lt(inputs.productCost, Zero)
    /\ \A i \in 1..Len(call.val) :
         call.val[i] \in {SellingPriceMsg, ProductCostMsg}
    /\ (call.val # <<>>)
         <=> (Le(inputs.sellingPrice, Zero) \/ Lt(inputs.productCost, Zero))

C10_Witness ==
  /\ call.fn = "validateInputs"
  /\ inputs.sellingPrice = Zero
  /\ Lt(inputs.productCost, Zero)
  /\ call.val = <<SellingPriceMsg, ProductCostMsg>>

----------------------------------------------------------------------------
\* C11: a Calculate click on inputs that fail validation shows exactly one
\* notification, the validation error whose description is the first
\* violated rule in rule order: the selling-price message when
\* sellingPrice <= 0 (also when productCost < 0 as well), the product-cost
\* message otherwise.
C11_FirstViolatedRuleIsShown ==
  [][(calculateProfit /\ Len(validateInputs(inputs)) > 0) =>
       toasts' = <<[title       |-> "Validation Error",
                    description |-> IF Le(inputs.sellingPrice, Zero)
                                    THEN SellingPriceMsg
                                    ELSE ProductCostMsg,
                    variant     |-> "destructive"]>>]_vars

\* both rules violated, and the one notification is the selling-price one
C11_Witness ==
  /\ Le(inputs.sellingPrice, Zero)
  /\ Lt(inputs.productCost, Zero)
  /\ Len(toasts) = 1
  /\ toasts[1].title = "Validation Error"
  /\ toasts[1].description = SellingPriceMsg
  /\ ~isCalculating

\* C12: in every reachable state of the view, the initial state built from
\* the query string included, each of the seven input fields is >= 0.
C12_InputsNonNegative == NonNegative(inputs)

\* C13, as stated: after any change of the inputs, if no further change
\* follows, results eventually equals calculateResults(inputs).  Checked
\* from the states in which an input event has changed the inputs and the
\* view has not written results yet; events counts the changes.
C13_AsStated ==
  \A k \in 0..MaxEvents :
    (events = k /\ edited # {} /\ results = Null)
      ~> (events # k \/ results = calculateResults(inputs))

\* C13, corrected: a change that leaves sellingPrice > 0 (a timeout is
\* pending) is followed, if no further change follows, by a state in which
\* results equals calculateResults(inputs): the pending timeout ends, and
\* when it ends in a step that is no user event, that step sets results to
\* calculateResults of the inputs.
C13_RecomputedWhenPriced ==
  /\ (timer # Null) ~> (timer = Null)
  /\ [][(timer # Null /\ timer' = Null /\ events' = events)
         => results' = calculateResults(inputs')]_vars

\* the results on display were recomputed for inputs that an edit changed
C13_Witness ==
  /\ "sellingPrice" \in edited
  /\ Gt(inputs.sellingPrice, Zero)
  /\ timer = Null
  /\ results = calculateResults(inputs)

\* C14: a calculateProfit run that passed validation sets results to
\* calculateResults of the inputs it validated before the insert is
\* awaited, and the end of the insert, whether it resolved, resolved with
\* an error or rejected, leaves results as they are and sets isCalculating
\* to false.
C14_InsertFailureDoesNotBlock ==
  [][/\ (calc.pc = "delay" /\ calc'.pc = "insert") =>
          /\ Len(validateInputs(calc.inputs)) = 0
          /\ results' = calculateResults(calc.inputs)
     /\ \A outcome \in InsertOutcomes :
          calculateProfitInsertEnds(outcome) =>
            /\ results' = results
            /\ ~isCalculating']_vars

\* the insert has just been rejected: the results of the run are shown and
\* the view is no longer calculating
C14_Witness ==
  /\ console = <<"Error logging calculation:">>
  /\ results = calculateResults(inputs)
  /\ calc = NoCalc
  /\ ~isCalculating

\* C15: the only error notification the view ever shows is the validation
\* failure: no step, and so no failure of the logging insert or of the
\* clipboard, shows another destructive notification.
C15_OnlyValidationErrorShown ==
  \A i \in 1..Len(toasts) :
    toasts[i].variant = "destructive" => toasts[i].title = "Validation Error"

\* C16: the logging insert of calculateProfit is fire-and-forget: the run
\* does not wait for it, so the view is never in the calculating state
\* (Calculate button disabled) on account of an insert that has not ended.
C16_InsertIsNotAwaited == calc.pc = "insert" => ~isCalculating

----------------------------------------------------------------------------
\* the call getContextualAdvice(calculateResults(inputs), inputs) was made
Advised == call.fn = "getContextualAdvice"

\* input records to compare a call with: costs moved from one field of the
\* record to another
Probes(inp) ==
  { [inp EXCEPT !.shippingCost = inp.ppcBudget,
                !.ppcBudget = inp.shippingCost],
    [inp EXCEPT !.fbaFee = inp.referralFee, !.referralFee = inp.fbaFee],
    [inp EXCEPT !.otherFees = inp.referralFee, !.referralFee = inp.otherFees],
    [inp EXCEPT !.productCost = inp.otherFees, !.otherFees = inp.productCost],
    [inp EXCEPT !.productCost = inp.fbaFee, !.fbaFee = inp.productCost] }

\* the messages that are constant strings
FixedMessages ==
  {NegativeProfitMsg, LowMarginMsg, ExcellentMarginMsg, GoodMarginMsg,
   HighReferralFeeMsg}

SameProfitAndMargin(a, b) ==
  /\ netProfit(a) = netProfit(b)
  /\ profitMargin(a) = profitMargin(b)

\* the five values getContextualAdvice reads
SameAdviceInputs(a, b) ==
  /\ SameProfitAndMargin(a, b)
  /\ breakEvenUnits(a) = breakEvenUnits(b)
  /\ a.referralFee = b.referralFee
  /\ a.sellingPrice = b.sellingPrice

\* C17, as stated: two calls whose results have the same netProfit and
\* profitMargin return the same list, and every message returned is one of
\* a fixed set of constant strings.
C17_AsStated ==
  Advised =>
    /\ \A p \in Probes(inputs) :
         SameProfitAndMargin(inputs, p) =>
           getContextualAdvice(calculateResults(p), p) = call.val
    /\ \A i \in 1..Len(call.val) : call.val[i] \in FixedMessages

\* C17, corrected: two calls that agree on netProfit, profitMargin,
\* breakEvenUnits, inputs.referralFee and inputs.sellingPrice return the
\* same list, and every message returned is one of five constant strings
\* or one of the two templates, filled with breakEvenUnits and with
\* (netProfit * 100).toFixed(0).
C17_AdviceIsFunctionOfFive ==
  Advised =>
    /\ \A p \in Probes(inputs) :
         SameAdviceInputs(inputs, p) =>
           getContextualAdvice(calculateResults(p), p) = call.val
    /\ \A i \in 1..Len(call.val) :
         call.val[i] \in
           FixedMessages
             \cup {BreakEvenMsg(breakEvenUnits(inputs)),
                   RevenueMsg(ToFixed0(Mul(netProfit(inputs), Hundred)))}

\* a call with a positive profit, and another record that agrees with it
\* on the five values
C17_Witness ==
  /\ Advised
  /\ Gt(netProfit(inputs), Zero)
  /\ Len(call.val) >= 3
  /\ \E p \in Probes(inputs) :
       /\ p.productCost # inputs.productCost
       /\ SameAdviceInputs(inputs, p)

----------------------------------------------------------------------------
\* C18: on a page opened without a query string, as long as no input event
\* has set the referral-fee field, after every selling-price edit
\* referralFee is 0.15 times the current sellingPrice.
C18_ReferralFeeFollowsPrice ==
  (search = <<>> /\ "sellingPrice" \in edited /\ "referralFee" \notin edited)
    => inputs.referralFee = Mul(inputs.sellingPrice, ReferralRate)

\* C19: whenever no debounce timeout is pending, no calculateProfit run is
\* in flight and sellingPrice > 0, the results on display are
\* calculateResults of the current inputs.
C19_ResultsMatchWhenQuiescent ==
  (timer = Null /\ calc.pc = "idle" /\ Gt(inputs.sellingPrice, Zero))
    => results = calculateResults(inputs)

\* C20: the timeout of the live calculation fires only for the inputs that
\* are current (a timeout set for inputs that were replaced since has been
\* cleared), so what it writes to results is calculateResults of the
\* current inputs, and these have sellingPrice > 0.
C20_DebounceWritesCurrent ==
  [][LiveCalculation =>
       /\ timer = inputs
       /\ Gt(inputs.sellingPrice, Zero)
       /\ results' = calculateResults(inputs)]_vars

\* two fields were edited one after the other, the timeout of the first
\* edit was replaced, and the results are those of the inputs after both
C20_Witness ==
  /\ "sellingPrice" \in edited
  /\ Cardinality(edited) >= 2
  /\ timer = Null
  /\ calc = NoCalc
  /\ sink = <<>>
  /\ results = calculateResults(inputs)

----------------------------------------------------------------------------
\* C21: the loops that derive the price series and the volume series
\* terminate for every range of the sliders.  The loop is deterministic
\* and its condition reads only the loop variable: it terminates only if
\* every pass that stays in the loop moves the loop variable up.
C21_SeriesLoopAdvances ==
  [][((priceData \/ volumeData) /\ chart'.todo = chart.todo)
       => Gt(chart'.x, chart.x)]_vars

----------------------------------------------------------------------------
\* the seven input fields of a row of the sink, as an input record
RowInputs(row) ==
  [productCost  |-> row.product_cost,
   sellingPrice |-> row.selling_price,
   referralFee  |-> row.referral_fee,
   fbaFee       |-> row.fba_fee,
   shippingCost |-> row.shipping_cost,
   ppcBudget    |-> row.ppc_budget,
   otherFees    |-> row.other_fees]

\* the three result fields of a row are the results of its input fields
SelfConsistent(row) ==
  /\ row.net_profit = calculateResults(RowInputs(row)).netProfit
  /\ row.profit_margin = calculateResults(RowInputs(row)).profitMargin
  /\ row.break_even_units = calculateResults(RowInputs(row)).breakEvenUnits

\* C22: every row sent to the logging sink, by calculateProfit or by
\* sendResultsToEmail, is self-consistent: its net_profit, profit_margin
\* and break_even_units are those calculateResults gives for the seven
\* input fields of the same row.
C22_RowsSelfConsistent ==
  \A i \in 1..Len(sink) : SelfConsistent(sink[i])

----------------------------------------------------------------------------
\* C23: when validateInputs of the current inputs is non-empty, a Calculate
\* click changes nothing but the notification shown: results and
\* isCalculating keep their values, as does the rest of the state of the
\* view, no run is started and no row is sent to the sink.
C23_InvalidClickOnlyNotifies ==
  [][(calculateProfit /\ validateInputs(inputs) # <<>>) =>
       /\ toasts' # <<>>
       /\ results' = results
       /\ isCalculating' = isCalculating
       /\ calc' = calc
       /\ sink' = <<>>
       /\ UNCHANGED <<inputs, timer, edited, email, isSendingEmail, send,
                      scenario1, scenario2>>]_vars

\* a click on invalid inputs has just been refused while results were shown
C23_Witness ==
  /\ validateInputs(inputs) # <<>>
  /\ toasts = ValidationToasts(validateInputs(inputs))
  /\ results # Null
  /\ ~isCalculating
  /\ calc = NoCalc
  /\ sink = <<>>

----------------------------------------------------------------------------
\* C24: an input event whose value parses to a negative number is refused:
\* the whole input record keeps its value, the referral fee included when
\* the field is the selling price.
C24_NegativeValueRefused ==
  [][\A field \in FieldSet : \A value \in Typed(field) :
       (handleInputChange(field, value) /\ Lt(ParseOrZero(value), Zero))
         => inputs' = inputs]_vars

\* one user event has happened and has left the view as it was mounted,
\* with no referral fee set: so does a refused "-1" in the selling price
C24_Witness ==
  /\ events = 1
  /\ edited = {}
  /\ inputs = InitialInputs(search)
  /\ ~Truthy(inputs.referralFee)
  /\ \E value \in Typed("sellingPrice") : Lt(ParseOrZero(value), Zero)
  /\ toasts = <<>>
  /\ clipboard = <<>>
  /\ ~isCalculating

----------------------------------------------------------------------------
\* the number of times message occurs in advice
Count(advice, message) ==
  Cardinality({i \in DOMAIN advice : advice[i] = message})

\* the margin messages of advice
MarginMessages(advice) ==
  Count(advice, LowMarginMsg) + Count(advice, GoodMarginMsg)
    + Count(advice, ExcellentMarginMsg)

\* the three rules of C25 that name a message, for the advice given on
\* profit margin m
MarginRules(m, advice) ==
  /\ MarginMessages(advice) <= 1
  /\ Count(advice, LowMarginMsg) = 1 <=> Lt(m, Fifteen)
  /\ Count(advice, GoodMarginMsg) = 1 <=> (Ge(m, Twenty) /\ Lt(m, Thirty))
  /\ Count(advice, ExcellentMarginMsg) = 1 <=> Ge(m, Thirty)

\* C25, as stated: getContextualAdvice emits at most one margin message:
\* the low-margin warning iff profitMargin < 15, the good-margin message
\* iff 20 <= profitMargin < 30, the excellent-margin message iff
\* profitMargin >= 30, and no margin message iff 15 <= profitMargin < 20.
C25_AsStated ==
  Advised =>
    /\ MarginRules(calculateResults(inputs).profitMargin, call.val)
    /\ MarginMessages(call.val) = 0
         <=> /\ Ge(calculateResults(inputs).profitMargin, Fifteen)
             /\ Lt(calculateResults(inputs).profitMargin, Twenty)

\* C25, amended: at most one margin message, each of the three iff the
\* margin is in its band, and no margin message iff
\* 15 <= profitMargin < 20 or profitMargin is NaN.
C25_MarginMessageByThreshold ==
  Advised =>
    /\ MarginRules(calculateResults(inputs).profitMargin, call.val)
    /\ MarginMessages(call.val) = 0
         <=> \/ /\ Ge(calculateResults(inputs).profitMargin, Fifteen)
                /\ Lt(calculateResults(inputs).profitMargin, Twenty)
             \/ IsNaN(calculateResults(inputs).profitMargin)

\* advice without a margin message for a margin that is NaN
C25_Witness ==
  /\ Advised
  /\ IsNaN(calculateResults(inputs).profitMargin)
  /\ MarginMessages(call.val) = 0

----------------------------------------------------------------------------
\* x is a finite integer that is not negative
IsCount(x) == x.d = 1 /\ x.n >= 0

\* C26: for an input record with every field non-negative, whenever
\* calculateResults gives netProfit > 0 its breakEvenUnits is a finite
\* non-negative integer, and the break-even message of getContextualAdvice,
\* which is emitted exactly then, carries that count and never Infinity or
\* NaN.
C26_BreakEvenCountIsFinite ==
  /\ (Calculated /\ NonNegative(inputs) /\ Gt(call.val.netProfit, Zero))
       => IsCount(call.val.breakEvenUnits)
  /\ (Advised /\ NonNegative(inputs)) =>
       /\ Count(call.val, BreakEvenMsg(PosInf)) = 0
       /\ Count(call.val, BreakEvenMsg(NaN)) = 0
       /\ IF Gt(calculateResults(inputs).netProfit, Zero)
          THEN /\ IsCount(calculateResults(inputs).breakEvenUnits)
               /\ Count(call.val,
                        BreakEvenMsg(calculateResults(inputs).breakEvenUnits))
                    = 1
          ELSE \A i \in DOMAIN call.val :
                 call.val[i][1] # BreakEvenMsg(Zero)[1]

\* advice on a profitable non-negative record that carries a count above 1
C26_Witness ==
  /\ Advised
  /\ NonNegative(inputs)
  /\ Gt(calculateResults(inputs).netProfit, Zero)
  /\ Gt(calculateResults(inputs).breakEvenUnits, Int2Num(1))
  /\ Count(call.val, BreakEvenMsg(calculateResults(inputs).breakEvenUnits)) = 1

----------------------------------------------------------------------------
\* C27: at most one calculateProfit run is in flight: isCalculating is true
\* exactly from the successful validation of a run until its insert has
\* returned or thrown, and a Calculate click that starts a run finds no run
\* in flight.
C27_OneRunInFlight ==
  /\ [](isCalculating <=> calc.pc \in {"delay", "insert"})
  /\ [][(calculateProfit /\ calc'.pc = "delay") => calc = NoCalc]_vars
  /\ [][(\E outcome \in InsertOutcomes : calculateProfitInsertEnds(outcome))
         => (isCalculating /\ ~isCalculating')]_vars

\* a run is awaiting its insert, on valid inputs
C27_Witness ==
  /\ isCalculating
  /\ calc.pc = "insert"
  /\ validateInputs(calc.inputs) = <<>>
  /\ sink = <<>>

----------------------------------------------------------------------------
\* C28: sendResultsToEmail sends nothing and changes no state when the
\* email is empty or results is null; otherwise it attempts exactly one
\* insert, clears the email field if and only if the insert did not fail,
\* and leaves isSendingEmail false afterwards, after a success and after a
\* failure.  An insert fails when it rejects and when it resolves with an
\* error.
C28_SendResultsToEmail ==
  /\ [][(sendResultsToEmail /\ (email = "" \/ results = Null)) =>
          /\ sink' = <<>>
          /\ toasts' = <<>>
          /\ UNCHANGED <<inputs, results, timer, edited, isCalculating, calc,
                         email, isSendingEmail, send, scenario1,
                         scenario2>>]_vars
  /\ [][(sendResultsToEmail /\ email # "" /\ results # Null) =>
          /\ Len(sink') = 1
          /\ send'.pc = "insert"]_vars
  /\ [][\A outcome \in InsertOutcomes :
          sendResultsToEmailInsertEnds(outcome) =>
            /\ sink' = <<>>
            /\ ~isSendingEmail'
            /\ IF outcome = "ok" THEN email' = "" ELSE email' = email]_vars

----------------------------------------------------------------------------
\* C29: saveScenario(n) stores the current inputs as scenario n and leaves
\* the other scenario, the inputs and the results as they are; a saved
\* scenario is changed by no input event and by no other step of the view:
\* scenario n changes only in a saveScenario(n) step.  (Opening a link
\* loads the page anew, with a new view that has no scenarios.)
C29_ScenarioIsSnapshot ==
  /\ [][saveScenario(1) =>
          /\ scenario1' = inputs
          /\ UNCHANGED <<scenario2, inputs, results>>]_vars
  /\ [][saveScenario(2) =>
          /\ scenario2' = inputs
          /\ UNCHANGED <<scenario1, inputs, results>>]_vars
  /\ [][scenario1' # scenario1 => (saveScenario(1) \/ OpenShareLink)]_vars
  /\ [][scenario2' # scenario2 => (saveScenario(2) \/ OpenShareLink)]_vars
  /\ [][\A field \in FieldSet : \A value \in Typed(field) :
          handleInputChange(field, value) => UNCHANGED scenarios]_vars

\* scenario 1 was saved and an input event has changed the inputs since
C29_Witness ==
  /\ scenario1 # Null
  /\ scenario2 = Null
  /\ edited # {}
  /\ scenario1 # inputs
  /\ loaded = "url"

----------------------------------------------------------------------------
\* C30: from start-up the intro is eventually dismissed: onComplete is
\* eventually called, after the hide timer has fired and then the fade-out
\* timer, and the calculator view (showIntro false) is never shown before
\* onComplete has been called, also when FBACalculator renders again during
\* the intro and the effect of IntroScreen restarts its timers.
C30_IntroIsDismissed ==
  /\ <>[](intro.onCompleteCalls > 0 /\ ~intro.showIntro)
  /\ [](~intro.showIntro => (intro.onCompleteCalls > 0 /\ ~intro.showScreen))
  /\ [][intro'.onCompleteCalls > intro.onCompleteCalls =>
          (~intro.showScreen /\ ~intro'.showIntro)]_vars

\* the intro was dismissed although the effect was restarted MaxRenders
\* times, and the interval of the last restart never fired
C30_Witness ==
  /\ ~intro.showIntro
  /\ intro.onCompleteCalls > 0
  /\ intro.renders = MaxRenders
  /\ intro.currentIndex = 0

=============================================================================
